---- MODULE Spec2Model ----
(***************************************************************************)
(* Model of custom_chunk.py: the text normalizer (process_text_block), the *)
(* page processor (process_page), the chunk splitter                       *)
(* (custom_text_splitter) and the document driver (process_document).      *)
(*                                                                         *)
(* A Python str is modelled as a sequence of characters, a Python list or  *)
(* tuple as a sequence.  A character is a one-character string; one that   *)
(* has no escape in a TLA+ string is written by its Python escape, so      *)
(* "\\xa0" is the single character U+00A0.                                  *)
(***************************************************************************)
EXTENDS Integers, Sequences, FiniteSets, TLC

\* ---------------------------------------------------------------- bounds

\* longest raw text block given to the normalizer
MaxTextLen == 6
\* most words in the page stream given to the splitter
MaxWords == 4
\* most pages given to the splitter
MaxPages == 2
\* chunk_size ranges over 1..MaxChunkSize
MaxChunkSize == 5
\* overlap ranges over 0..MaxOverlap
MaxOverlap == 1
\* most pages of a document, most blocks of a page (document driver)
MaxDocPages == 2
MaxBlocks == 2

\* ------------------------------------------------------- Python strings

\* the characters str.split() with no argument and str.strip() treat as
\* separators: every c with c.isspace(), that is U+0009..U+000D,
\* U+001C..U+001F, U+0020, U+0085, U+00A0, U+1680, U+2000..U+200A, U+2028,
\* U+2029, U+202F, U+205F and U+3000
Whitespace ==
  {"\t", "\n", "\\x0b", "\f", "\r", "\\x1c", "\\x1d", "\\x1e", "\\x1f",
   " ", "\\x85", "\\xa0", "\\u1680",
   "\\u2000", "\\u2001", "\\u2002", "\\u2003", "\\u2004", "\\u2005",
   "\\u2006", "\\u2007", "\\u2008", "\\u2009", "\\u200a",
   "\\u2028", "\\u2029", "\\u202f", "\\u205f", "\\u3000"}

\* "  " in text
HasDoubleSpace(s) ==
  \E i \in 1..(Len(s) - 1) : s[i] = " " /\ s[i + 1] = " "

\* number of leading non-whitespace characters of s
RECURSIVE WordPrefixLen(_)
WordPrefixLen(s) ==
  IF s = <<>> \/ Head(s) \in Whitespace THEN 0 ELSE 1 + WordPrefixLen(Tail(s))

\* s.split(): the maximal runs of non-whitespace characters, in order
RECURSIVE SplitWhitespace(_)
SplitWhitespace(s) ==
  IF s = <<>> THEN <<>>
  ELSE IF Head(s) \in Whitespace THEN SplitWhitespace(Tail(s))
  ELSE LET n == WordPrefixLen(s)
       IN  <<SubSeq(s, 1, n)>> \o SplitWhitespace(SubSeq(s, n + 1, Len(s)))

\* s.split("  "): cut at every non-overlapping two-space delimiter found
\* scanning left to right; cur is the segment being read
RECURSIVE SplitDoubleSpaceFrom(_, _)
SplitDoubleSpaceFrom(s, cur) ==
  IF Len(s) >= 2 /\ s[1] = " " /\ s[2] = " "
  THEN <<cur>> \o SplitDoubleSpaceFrom(SubSeq(s, 3, Len(s)), <<>>)
  ELSE IF s = <<>> THEN <<cur>>
  ELSE SplitDoubleSpaceFrom(Tail(s), Append(cur, Head(s)))

SplitDoubleSpace(s) == SplitDoubleSpaceFrom(s, <<>>)

\* sep.join(parts)
RECURSIVE Join(_, _)
Join(parts, sep) ==
  IF parts = <<>> THEN <<>>
  ELSE IF Len(parts) = 1 THEN parts[1]
  ELSE parts[1] \o sep \o Join(Tail(parts), sep)

\* s.lstrip(), s.rstrip(), s.strip()
RECURSIVE LStrip(_)
LStrip(s) ==
  IF s # <<>> /\ Head(s) \in Whitespace THEN LStrip(Tail(s)) ELSE s

RECURSIVE RStrip(_)
RStrip(s) ==
  IF s # <<>> /\ s[Len(s)] \in Whitespace
  THEN RStrip(SubSeq(s, 1, Len(s) - 1)) ELSE s

Strip(s) == RStrip(LStrip(s))

\* lst[-n:] for n >= 0: the start index -n is taken from the end when it is
\* negative and clamped to 0; -0 is 0, so lst[-0:] is the whole list
NegSliceStart(len, n) ==
  IF -n < 0 THEN (IF len - n < 0 THEN 0 ELSE len - n) ELSE 0

TailSlice(lst, n) == SubSeq(lst, NegSliceStart(Len(lst), n) + 1, Len(lst))

\* ------------------------------------------------------ text normalizer

\* a faulty variant that keeps the whitespace inside a segment
CleanWordKeepSpaces(word) == word

\* ''.join(word.split()): a segment with all its whitespace removed
CleanWord(word) == Join(SplitWhitespace(word), <<>>)

process_text_block(t) ==
  IF HasDoubleSpace(t)
  THEN LET words == SplitDoubleSpace(t)
           cleaned_words == [i \in 1..Len(words) |-> CleanWord(words[i])]
       IN  Join(cleaned_words, <<" ">>)
  ELSE t

\* ------------------------------------------------------- page processor

\* a block record of page.get_text("blocks"): the text is element [4]
\* (the fifth element); the four before it are the bounding box
Block(t) == <<0, 0, 0, 0, t>>

\* the loop of process_page over blocks[i..], appending to processed_blocks
RECURSIVE ProcessBlocksFrom(_, _, _)
ProcessBlocksFrom(text_blocks, i, processed_blocks) ==
  IF i > Len(text_blocks) THEN processed_blocks
  ELSE LET raw_text == text_blocks[i][5]
           processed_text == process_text_block(raw_text)
       IN  ProcessBlocksFrom(text_blocks, i + 1,
             IF processed_text # <<>>
             THEN Append(processed_blocks, processed_text)
             ELSE processed_blocks)

process_page(text_blocks) ==
  Strip(Join(ProcessBlocksFrom(text_blocks, 1, <<>>), <<" ">>))

\* -------------------------------------------------------- chunk splitter

\* the (page_num, word) pairs the nested loops of custom_text_splitter
\* visit, in order: every word of page_content.split(), page after page
RECURSIVE Stream(_)
Stream(pgs) ==
  IF pgs = <<>> THEN <<>>
  ELSE LET page_num == pgs[1][1]
           words == SplitWhitespace(pgs[1][2])
       IN  [i \in 1..Len(words) |-> <<page_num, words[i]>>] \o Stream(Tail(pgs))

\* a faulty variant of the size test that also rejects an exact fit
ExceedsOrFills(cur, word, size) == Len(cur) + Len(word) + 1 >= size

\* len(current_chunk) + len(word) + 1 > chunk_size
Exceeds(cur, word, size) == Len(cur) + Len(word) + 1 > size

\* overlap_text + " " + word, with overlap_text the joined
\* current_chunk.split()[-overlap:]
SeedChunk(cur, word, ov) ==
  LET overlap_words == TailSlice(SplitWhitespace(cur), ov)
      overlap_text == Join(overlap_words, <<" ">>)
  IN  overlap_text \o <<" ">> \o word

\* a faulty variant that appends the page number unconditionally
AddPageAlways(pgnums, page_num) == Append(pgnums, page_num)

\* if page_num not in current_pages: current_pages.append(page_num)
AddPage(pgnums, page_num) ==
  IF \E i \in 1..Len(pgnums) : pgnums[i] = page_num
  THEN pgnums ELSE Append(pgnums, page_num)

\* the whole call as a function of its arguments: the loop from stream
\* position k with the given locals; raised is TRUE when the call ends in
\* the IndexError of current_pages[-1] on an empty list
RECURSIVE SplitterLoop(_, _, _, _, _, _, _)
SplitterLoop(stream, k, size, ov, cur, cur_pages, out) ==
  IF k > Len(stream)
  THEN [raised |-> FALSE,
        chunks |-> IF cur # <<>> THEN Append(out, <<Strip(cur), cur_pages>>)
                   ELSE out]
  ELSE LET page_num == stream[k][1]
           word == stream[k][2]
       IN  IF Exceeds(cur, word, size)
           THEN IF cur_pages = <<>>
                THEN [raised |-> TRUE, chunks |-> <<>>]
                ELSE SplitterLoop(stream, k + 1, size, ov,
                       SeedChunk(cur, word, ov),
                       AddPage(<<cur_pages[Len(cur_pages)]>>, page_num),
                       Append(out, <<Strip(cur), cur_pages>>))
           ELSE SplitterLoop(stream, k + 1, size, ov,
                  cur \o word \o <<" ">>, AddPage(cur_pages, page_num), out)

custom_text_splitter(pgs, size, ov) ==
  SplitterLoop(Stream(pgs), 1, size, ov, <<>>, <<>>, <<>>)

\* ----------------------------------------------------------------- state

VARIABLES
  pc,             \* position of the running call
  text,           \* process_text_block: its argument
  result,         \* process_text_block: its return value
  again,          \* process_text_block applied to result
  pages,          \* custom_text_splitter: its argument pages
  chunk_size,     \* custom_text_splitter / process_document: chunk_size
  overlap,        \* custom_text_splitter / process_document: overlap
  stream,         \* custom_text_splitter: the (page_num, word) pairs its loops visit
  k,              \* custom_text_splitter: index in stream of the next word
  current_chunk,  \* custom_text_splitter: local current_chunk
  current_pages,  \* custom_text_splitter: local current_pages
  chunks,         \* custom_text_splitter: local chunks, the return value
  branch,         \* history: which branch the last loop iteration took
  drawn,          \* history: drawn[i] is the set of pages whose words were
                  \* appended to chunk i other than as overlap seed; the last
                  \* element belongs to the chunk being accumulated
  document,       \* process_document: the pages of the file, each a block list
  doc,            \* process_document: the handle returned by fitz.open
  processed_pages \* process_document: local processed_pages

vars == <<pc, text, result, again, pages, chunk_size, overlap, stream, k,
          current_chunk, current_pages, chunks, branch, drawn,
          document, doc, processed_pages>>

normVars == <<text, result, again>>
splitVars == <<pages, chunk_size, overlap, stream, k, current_chunk, current_pages,
               chunks, branch, drawn>>
docVars == <<document, doc, processed_pages>>

NormIdle == text = <<>> /\ result = <<>> /\ again = <<>>
SplitIdle ==
  /\ pages = <<>> /\ chunk_size = 1 /\ overlap = 0 /\ stream = <<>> /\ k = 1
  /\ current_chunk = <<>> /\ current_pages = <<>> /\ chunks = <<>>
  /\ branch = "none" /\ drawn = <<{}>>
DocIdle == document = <<>> /\ doc = "none" /\ processed_pages = <<>>

\* ------------------------------------------- specification: normalizer

\* letters, the space, and a separator of str.split() that is not a space
Alphabet == {"a", "b", "c", " ", "\r"}

Texts == UNION {[1..n -> Alphabet] : n \in 0..MaxTextLen}

InitNorm ==
  /\ pc = "call" /\ text \in Texts /\ result = <<>> /\ again = <<>>
  /\ SplitIdle /\ DocIdle

\* result = process_text_block(text)
Normalize ==
  /\ pc = "call"
  /\ result' = process_text_block(text)
  /\ pc' = "returned"
  /\ UNCHANGED <<text, again, splitVars, docVars>>

\* again = process_text_block(result)
NormalizeAgain ==
  /\ pc = "returned"
  /\ again' = process_text_block(result)
  /\ pc' = "twice"
  /\ UNCHANGED <<text, result, splitVars, docVars>>

NextNorm == Normalize \/ NormalizeAgain

SpecNorm == InitNorm /\ [][NextNorm]_vars

\* --------------------------------------------- specification: splitter

\* the words the input pages are made of
WordSet == {<<"a">>, <<"b">>, <<"b", "b">>}

WordLists == UNION {[1..n -> WordSet] : n \in 0..MaxWords}

\* how a page's words are laid out as text: joined by single spaces; each
\* followed by a space ("word " * n); or separated by a carriage return and a
\* no-break space after a leading tab, which
\* leaves a wordless page non-empty
Layouts == {"joined", "trailing", "ragged"}

Render(ws, layout) ==
  IF layout = "joined" THEN Join(ws, <<" ">>)
  ELSE IF layout = "trailing" THEN Join(ws, <<" ">>) \o (IF ws = <<>> THEN <<>> ELSE <<" ">>)
  ELSE <<"\t">> \o Join(ws, <<"\r", "\\xa0">>)

\* the ways to cut n words into np consecutive pages (pages may be empty):
\* cut[j] words lie on pages 1..j-1
Cuts(n, np) ==
  {c \in [1..(np + 1) -> 0..n] :
     /\ c[1] = 0 /\ c[np + 1] = n
     /\ \A j \in 1..np : c[j] <= c[j + 1]}

\* pages are numbered from 1, as process_document numbers them
MakePages(ws, c, np, layout) ==
  [j \in 1..np |-> <<j, Render(SubSeq(ws, c[j] + 1, c[j + 1]), layout)>>]

InputPages ==
  {<<>>} \cup
  UNION {UNION {UNION {{MakePages(ws, c, np, layout) : c \in Cuts(Len(ws), np)} :
                         layout \in Layouts} :
                  np \in 1..MaxPages} :
           ws \in WordLists}

InitSplit ==
  /\ pc = "loop"
  /\ pages \in InputPages
  /\ chunk_size \in 1..MaxChunkSize
  /\ overlap \in 0..MaxOverlap
  /\ stream = Stream(pages)
  /\ k = 1 /\ current_chunk = <<>> /\ current_pages = <<>> /\ chunks = <<>>
  /\ branch = "none" /\ drawn = <<{}>>
  /\ NormIdle /\ DocIdle

\* the pair the loops are at
PageNum == stream[k][1]
Word == stream[k][2]
AtWord == pc = "loop" /\ k <= Len(stream)

\* one iteration through the else branch: current_chunk += word + " "
AppendWord ==
  /\ AtWord
  /\ ~Exceeds(current_chunk, Word, chunk_size)
  /\ current_chunk' = current_chunk \o Word \o <<" ">>
  /\ current_pages' = AddPage(current_pages, PageNum)
  /\ k' = k + 1
  /\ branch' = "append"
  /\ drawn' = [drawn EXCEPT ![Len(drawn)] = @ \cup {PageNum}]
  /\ UNCHANGED <<pc, pages, chunk_size, overlap, stream, chunks,
                 normVars, docVars>>

\* one iteration through the if branch: the chunk is finalized and the next
\* one seeded with the overlap words and the current word
FinalizeAndSeed ==
  /\ AtWord
  /\ Exceeds(current_chunk, Word, chunk_size)
  /\ current_pages # <<>>
  /\ chunks' = Append(chunks, <<Strip(current_chunk), current_pages>>)
  /\ current_chunk' = SeedChunk(current_chunk, Word, overlap)
  /\ current_pages' = AddPage(<<current_pages[Len(current_pages)]>>, PageNum)
  /\ k' = k + 1
  /\ branch' = "seed"
  /\ drawn' = Append(drawn, {PageNum})
  /\ UNCHANGED <<pc, pages, chunk_size, overlap, stream, normVars, docVars>>

\* the if branch with current_pages empty: the chunk is appended and the
\* seed built, then current_pages[-1] raises IndexError
FinalizeRaise ==
  /\ AtWord
  /\ Exceeds(current_chunk, Word, chunk_size)
  /\ current_pages = <<>>
  /\ chunks' = Append(chunks, <<Strip(current_chunk), current_pages>>)
  /\ current_chunk' = SeedChunk(current_chunk, Word, overlap)
  /\ pc' = "raised"
  /\ branch' = "raise"
  /\ UNCHANGED <<pages, chunk_size, overlap, stream, k, current_pages, drawn,
                 normVars, docVars>>

\* after the loops: the last chunk, if any, and return chunks
Return ==
  /\ pc = "loop"
  /\ k > Len(stream)
  /\ chunks' = IF current_chunk # <<>>
               THEN Append(chunks, <<Strip(current_chunk), current_pages>>)
               ELSE chunks
  /\ pc' = "done"
  /\ UNCHANGED <<pages, chunk_size, overlap, stream, k, current_chunk,
                 current_pages, branch, drawn, normVars, docVars>>

NextSplit == AppendWord \/ FinalizeAndSeed \/ FinalizeRaise \/ Return

SpecSplit == InitSplit /\ [][NextSplit]_vars

\* the step-by-step run agrees with the call taken as a function
StepsAgreeWithCall ==
  LET r == custom_text_splitter(pages, chunk_size, overlap)
  IN  /\ pc = "done" => ~r.raised /\ r.chunks = chunks
      /\ pc = "raised" => r.raised

\* -------------------------------------- specification: document driver

\* raw block texts as the document reader reports them
BlockTexts ==
  {<<>>, <<"a", " ", " ", "b", " ", "c">>, <<"b", "b", "\n">>,
   <<"\\xa0", "a", "\r", "b">>}

BlockLists == UNION {[1..n -> {Block(t) : t \in BlockTexts}] : n \in 0..MaxBlocks}

Documents == UNION {[1..n -> BlockLists] : n \in 0..MaxDocPages}

InitDoc ==
  /\ pc = "open"
  /\ document \in Documents
  /\ chunk_size \in 1..MaxChunkSize
  /\ overlap \in 0..MaxOverlap
  /\ doc = "none" /\ processed_pages = <<>>
  /\ pages = <<>> /\ stream = <<>> /\ k = 1
  /\ current_chunk = <<>> /\ current_pages = <<>>
  /\ chunks = <<>> /\ branch = "none" /\ drawn = <<{}>>
  /\ NormIdle

\* doc = fitz.open(pdf_path) succeeds: the handle is open
OpenDocument ==
  /\ pc = "open"
  /\ doc' = "open"
  /\ pc' = "pages"
  /\ UNCHANGED <<document, processed_pages, splitVars, normVars>>

\* fitz.open(pdf_path) raises (missing or corrupt file): the call ends
OpenFails ==
  /\ pc = "open"
  /\ pc' = "raised"
  /\ UNCHANGED <<docVars, splitVars, normVars>>

\* one iteration of "for page in doc": page.number is the 0-based ordinal
ReadPage ==
  /\ pc = "pages"
  /\ Len(processed_pages) < Len(document)
  /\ LET number == Len(processed_pages)
         page_content == process_page(document[number + 1])
     IN  processed_pages' = Append(processed_pages, <<number + 1, page_content>>)
  /\ UNCHANGED <<pc, document, doc, splitVars, normVars>>

\* return custom_text_splitter(processed_pages, chunk_size, overlap_size):
\* the call returns its chunks; nothing closes doc
SplitAndReturn ==
  /\ pc = "pages"
  /\ Len(processed_pages) = Len(document)
  /\ LET r == custom_text_splitter(processed_pages, chunk_size, overlap)
     IN  /\ ~r.raised
         /\ chunks' = r.chunks
  /\ pc' = "done"
  /\ UNCHANGED <<docVars, pages, chunk_size, overlap, stream, k,
                 current_chunk, current_pages, branch, drawn, normVars>>

\* the same call when custom_text_splitter raises: the error propagates
SplitRaises ==
  /\ pc = "pages"
  /\ Len(processed_pages) = Len(document)
  /\ custom_text_splitter(processed_pages, chunk_size, overlap).raised
  /\ pc' = "raised"
  /\ UNCHANGED <<docVars, splitVars, normVars>>

NextDoc == OpenDocument \/ OpenFails \/ ReadPage \/ SplitAndReturn \/ SplitRaises

SpecDoc == InitDoc /\ [][NextDoc]_vars

\* ------------------------------------------------- claims: the splitter

Range(f) == {f[i] : i \in DOMAIN f}
Min(a, b) == IF a <= b THEN a ELSE b
ChunkText(i) == chunks[i][1]
ChunkPages(i) == chunks[i][2]
ChunkWords(i) == SplitWhitespace(ChunkText(i))
StreamWords == {stream[i][2] : i \in 1..Len(stream)}
HasWords(page_content) == SplitWhitespace(page_content) # <<>>

\* C1 (coverage): when the call returns, every whitespace-delimited word of
\* the page stream is a whitespace-delimited word of at least one returned
\* chunk, so no word is fused with its neighbour.
Coverage ==
  pc = "done" =>
    \A w \in StreamWords : \E i \in 1..Len(chunks) : w \in Range(ChunkWords(i))

\* C2 (overlap seeding): right after a chunk is finalized because the next
\* word would exceed chunk_size, the new accumulated chunk is exactly the
\* last min(overlap, n) words of the finalized chunk joined by single
\* spaces, then a space, then the current word; for overlap = 0 as well.
\* (pc = "loop": the call is still in its loops, so the last element of
\* chunks is the chunk just finalized.)
OverlapSeeding ==
  (pc = "loop" /\ branch = "seed") =>
    LET prev == SplitWhitespace(ChunkText(Len(chunks)))
        n == Len(prev)
        m == Min(overlap, n)
        word == stream[k - 1][2]
    IN  current_chunk = Join(SubSeq(prev, n - m + 1, n), <<" ">>) \o <<" ">> \o word

\* C3 (size bound): every returned chunk with no word longer than chunk_size
\* is at most chunk_size plus the length of its longest word long.
SizeBound ==
  pc = "done" =>
    \A i \in 1..Len(chunks) :
      LET ws == ChunkWords(i)
      IN  (\A j \in 1..Len(ws) : Len(ws[j]) <= chunk_size) =>
            \E j \in 1..Len(ws) : Len(ChunkText(i)) <= chunk_size + Len(ws[j])

\* C4 (no error): the call never raises, whatever the pages, for
\* chunk_size >= 1 and overlap >= 0.
NeverRaises == pc # "raised"

\* position of page number p in the input
PagePos(p) == CHOOSE j \in 1..Len(pages) : pages[j][1] = p

\* C5 (page attribution): in every returned chunk the page list contains
\* every page a word was appended from other than as overlap seed, lists
\* pages in the order they were encountered without duplicates, and lists
\* no page that has no word.
PageAttribution ==
  pc = "done" =>
    \A i \in 1..Len(chunks) :
      LET pl == ChunkPages(i)
      IN  /\ drawn[i] \subseteq Range(pl)
          /\ \A a, b \in 1..Len(pl) : a < b => PagePos(pl[a]) < PagePos(pl[b])
          /\ \A a \in 1..Len(pl) : HasWords(pages[PagePos(pl[a])][2])

\* C5 witness: a returned chunk that lists two pages, the first of them
\* carried over at the chunk boundary and not drawn from
PageAttributionWitness ==
  /\ pc = "done" /\ Len(chunks) >= 2
  /\ \E i \in 2..Len(chunks) :
       Len(ChunkPages(i)) = 2 /\ drawn[i] = {ChunkPages(i)[2]}

\* C6 (non-empty result): the call returns at least one chunk if some page
\* has text that is not blank, and returns the empty sequence otherwise.
NonEmptyResult ==
  pc \in {"done", "raised"} =>
    IF \E j \in 1..Len(pages) : HasWords(pages[j][2])
    THEN pc = "done" /\ Len(chunks) >= 1
    ELSE pc = "done" /\ chunks = <<>>

\* sum of len(word) + 1 over the words of a text: the length the splitter
\* accumulates for it
RECURSIVE PaddedLen(_)
PaddedLen(ws) == IF ws = <<>> THEN 0 ELSE Len(Head(ws)) + 1 + PaddedLen(Tail(ws))

\* C9 as stated (single page), on the runs that return: exactly one chunk
\* if len(text) <= chunk_size, otherwise more than one chunk, each
\* attributed to [p].
SinglePageByTextLength ==
  (pc = "done" /\ Len(pages) = 1) =>
    IF Len(pages[1][2]) <= chunk_size
    THEN Len(chunks) = 1
    ELSE Len(chunks) > 1 /\ \A i \in 1..Len(chunks) : ChunkPages(i) = <<pages[1][1]>>

\* C9 as amended (single page), on every run: with total the sum of
\* len(word) + 1 over the words of the text, the call returns no chunk if
\* the text has no word, exactly one chunk if 0 < total <= chunk_size, more
\* than one chunk if total > chunk_size and the first word w has
\* len(w) + 1 <= chunk_size, and raises IndexError if len(w) + 1 >
\* chunk_size; every returned chunk is attributed to [p].
SinglePageByPaddedLength ==
  (pc \in {"done", "raised"} /\ Len(pages) = 1) =>
    LET ws == SplitWhitespace(pages[1][2])
        total == PaddedLen(ws)
        firstFits == ws # <<>> /\ Len(ws[1]) + 1 <= chunk_size
    IN  /\ total = 0 => pc = "done" /\ chunks = <<>>
        /\ (0 < total /\ total <= chunk_size) => pc = "done" /\ Len(chunks) = 1
        /\ (total > chunk_size /\ firstFits) => pc = "done" /\ Len(chunks) > 1
        /\ (total > chunk_size /\ ~firstFits) => pc = "raised"
        /\ pc = "done" => \A i \in 1..Len(chunks) : ChunkPages(i) = <<pages[1][1]>>

\* C9 witness: a single page whose text fits chunk_size by its length and is
\* still returned as more than one chunk
SinglePageWitness ==
  /\ pc = "done" /\ Len(pages) = 1 /\ overlap >= 1
  /\ Len(pages[1][2]) <= chunk_size /\ Len(chunks) > 1

\* --------------------------------------------- claims: the normalizer

\* "a  b c"
ExampleText == <<"a", " ", " ", "b", " ", "c">>

\* C8 as stated (normalizer example): process_text_block("a  b c") is "ab c".
ExampleGivesAbC ==
  (pc = "returned" /\ text = ExampleText) => result = <<"a", "b", " ", "c">>

\* C8 as amended: process_text_block("a  b c") is "a bc": the two-space
\* delimiter becomes one space and the space inside the segment "b c" goes.
ExampleGivesABc ==
  (pc = "returned" /\ text = ExampleText) => result = <<"a", " ", "b", "c">>

\* C8 witness: the call on the example has returned
ExampleWitness == pc = "returned" /\ text = ExampleText /\ result # text

\* C10 (idempotence on its own output): the result has no run of two or more
\* spaces, and normalizing it again returns it unchanged.
OutputIsNormalized ==
  pc = "twice" => ~HasDoubleSpace(result) /\ again = result

\* ----------------------------------------- claims: the document driver

\* C7 (handle release): when process_document returns its chunk sequence,
\* the document handle it opened has been closed.
HandleReleased == pc = "done" => doc = "closed"

====
